---- MODULE Spec2Model ----
(***************************************************************************)
(* Model of backend/main.py: the POST /fetch-news handler fetch_news.      *)
(* One invocation runs in three steps, split at the two outbound calls:    *)
(*   Begin         lines 52-80   key checks, date validation, search call  *)
(*   SearchReturn  lines 71-130  search outcome, article mapping, model    *)
(*                               call                                      *)
(*   ModelReturn   lines 130-148 reply parsing, response construction      *)
(* Python strings are TLA+ strings, except the request date, which is a    *)
(* sequence of one-character strings so that strptime can be modelled      *)
(* character by character.  Python dicts are TLA+ records; "k in d" is     *)
(* "k" \in DOMAIN d.  Python None / JSON null is the value None.           *)
(***************************************************************************)
EXTENDS Integers, Sequences, FiniteSets, TLC

VARIABLES SERP_API_KEY, GOOGLE_API_KEY, pc, request, data, articles, reply,
          result, fault, searchCalls, modelCalls

vars == <<SERP_API_KEY, GOOGLE_API_KEY, pc, request, data, articles, reply,
          result, fault, searchCalls, modelCalls>>

\* ------------------------------------------------------------------ bounds
\* Largest number of entries the search provider puts in news_results.
MaxResults == 17
\* Number of interleaved invocations of the handler in SpecConc.
NumInv == 2
\* The slice bound of data.get("news_results", [])[:15].
MaxArticles == 15

\* ------------------------------------------------------- Python primitives
None == "<None>"

\* os.getenv: unset, set but empty, set.
EnvValues == {None, "", "key"}

\* (not X) on an environment value is true for None and for "".
Truthy(v) == v # None /\ v # ""

\* dict.get(key, default)
Get(d, k, default) == IF k \in DOMAIN d THEN d[k] ELSE default

\* isinstance(v, str), as pydantic's str field type requires.
IsStr(v) == v # None

Min(a, b) == IF a <= b THEN a ELSE b

\* seq[:n]
Slice(s, n) == SubSeq(s, 1, Min(Len(s), n))

\* ---------------------------------------- datetime.strptime(s, "%Y-%m-%d")
Digits == {"0", "1", "2", "3", "4", "5", "6", "7", "8", "9"}

DigitVal(c) ==
    CASE c = "0" -> 0 [] c = "1" -> 1 [] c = "2" -> 2 [] c = "3" -> 3
      [] c = "4" -> 4 [] c = "5" -> 5 [] c = "6" -> 6 [] c = "7" -> 7
      [] c = "8" -> 8 [] c = "9" -> 9

\* The character at position p, or "" past the end.
At(s, p) == IF p >= 1 /\ p <= Len(s) THEN s[p] ELSE ""

\* Length matched by the month group 1[0-2]|0[1-9]|[1-9] at position p
\* (0: no match).  The alternatives are tried in this order.
MonthLen(s, p) ==
    IF At(s, p) = "1" /\ At(s, p + 1) \in {"0", "1", "2"} THEN 2
    ELSE IF At(s, p) = "0" /\ At(s, p + 1) \in Digits \ {"0"} THEN 2
    ELSE IF At(s, p) \in Digits \ {"0"} THEN 1
    ELSE 0

\* Length matched by the day group 3[0-1]|[1-2]\d|0[1-9]|[1-9]| [1-9].
DayLen(s, p) ==
    IF At(s, p) = "3" /\ At(s, p + 1) \in {"0", "1"} THEN 2
    ELSE IF At(s, p) \in {"1", "2"} /\ At(s, p + 1) \in Digits THEN 2
    ELSE IF At(s, p) = "0" /\ At(s, p + 1) \in Digits \ {"0"} THEN 2
    ELSE IF At(s, p) \in Digits \ {"0"} THEN 1
    ELSE IF At(s, p) = " " /\ At(s, p + 1) \in Digits \ {"0"} THEN 2
    ELSE 0

\* The number written by the digits (and blanks) of s[p .. p+n-1].
NumAt(s, p, n) ==
    IF n = 1 THEN DigitVal(s[p])
    ELSE IF s[p] = " " THEN DigitVal(s[p + 1])
    ELSE 10 * DigitVal(s[p]) + DigitVal(s[p + 1])

IsLeap(y) == (y % 4 = 0) /\ ((y % 100 # 0) \/ (y % 400 = 0))

DaysInMonth(y, m) ==
    IF m = 2 THEN (IF IsLeap(y) THEN 29 ELSE 28)
    ELSE IF m \in {4, 6, 9, 11} THEN 30
    ELSE 31

\* TRUE iff strptime returns a datetime; FALSE iff it raises ValueError:
\* the format's regular expression must match a prefix, nothing may remain
\* after the match, and the fields must name a calendar day.
Strptime(s) ==
    /\ \A p \in 1..4 : At(s, p) \in Digits
    /\ At(s, 5) = "-"
    /\ MonthLen(s, 6) > 0
    /\ At(s, 6 + MonthLen(s, 6)) = "-"
    /\ DayLen(s, 7 + MonthLen(s, 6)) > 0
    /\ Len(s) = 6 + MonthLen(s, 6) + DayLen(s, 7 + MonthLen(s, 6))
    /\ LET y == 1000 * DigitVal(s[1]) + 100 * DigitVal(s[2])
                  + 10 * DigitVal(s[3]) + DigitVal(s[4])
           ml == MonthLen(s, 6)
           m == NumAt(s, 6, ml)
           d == NumAt(s, 7 + ml, DayLen(s, 7 + ml))
       IN  y >= 1 /\ d <= DaysInMonth(y, m)

\* ------------------------------------------------------------- exceptions
HTTPException(status, detail) ==
    [type |-> "HTTPException", status |-> status, detail |-> detail]

\* Any exception that is not an HTTPException, with its message text.
OtherException(msg) ==
    [type |-> "Exception", status |-> 0, detail |-> msg]

\* str(e).  HTTPException comes from the installed starlette (not pinned by
\* the repository): it prints as "<status>: <detail>" where it defines
\* __str__, and as "" where it does not (it is built with keyword arguments
\* only, so its args are empty).  Other exceptions print their message.
StrOf(e) ==
    IF e.type = "HTTPException"
    THEN {"", ToString(e.status) \o ": " \o e.detail}
    ELSE {e.detail}

\* ------------------------------------------------------ handler outcomes
NoArticles == << >>

\* The HTTP response raise HTTPException(status_code, detail) produces.
ErrorResponse(status, detail) ==
    [status |-> status, detail |-> detail, articles |-> NoArticles,
     summary |-> "", headline |-> ""]

\* A returned NewsResponse(articles, summary, headline): status 200.
NewsResponse(arts, summary, headline) ==
    [status |-> 200, detail |-> "", articles |-> arts,
     summary |-> summary, headline |-> headline]

\* No response yet.
Pending == ErrorResponse(0, "")

ErrorPrefix == "Error fetching news: "

\* Mutant: the outer handler answers 502 Bad Gateway.
OuterExceptBadGateway(s) == ErrorResponse(502, ErrorPrefix \o s)

\* Mutant: the outer handler drops the exception's text.
OuterExceptGeneric(s) == ErrorResponse(500, "Error fetching news")

\* except Exception as e: raise HTTPException(500, f"Error fetching news: {str(e)}")
\* given s = str(e).
OuterExcept(s) == ErrorResponse(500, ErrorPrefix \o s)

\* ------------------------------------------------------------ the inputs
\* Request dates, as sequences of characters.
\* "2024-01-15": the spec's example
DateGood1 == <<"2", "0", "2", "4", "-", "0", "1", "-", "1", "5">>
\* "2024-1-5": accepted by strptime without zero padding
DateGood2 == <<"2", "0", "2", "4", "-", "1", "-", "5">>
\* "2024-02-29": leap day
DateGood3 == <<"2", "0", "2", "4", "-", "0", "2", "-", "2", "9">>
\* "2024/01/01": wrong separator
DateBad1 == <<"2", "0", "2", "4", "/", "0", "1", "/", "0", "1">>
\* "not-a-date": no digits
DateBad2 == <<"n", "o", "t", "-", "a", "-", "d", "a", "t", "e">>
\* "2024-02-30": no such day
DateBad3 == <<"2", "0", "2", "4", "-", "0", "2", "-", "3", "0">>
\* "2023-02-29": not a leap year
DateBad4 == <<"2", "0", "2", "3", "-", "0", "2", "-", "2", "9">>
\* "2024-13-01": no such month
DateBad5 == <<"2", "0", "2", "4", "-", "1", "3", "-", "0", "1">>
\* "2024-01-15T": unconverted data remains
DateBad6 == <<"2", "0", "2", "4", "-", "0", "1", "-", "1", "5", "T">>
\* "": empty
DateBad7 == << >>

DateInputs ==
    {DateGood1, DateGood2, DateGood3, DateBad1,
     DateBad2, DateBad3, DateBad4, DateBad5,
     DateBad6, DateBad7}

\* Request topic lists.
TopicInputs == {<< >>, <<"elections">>, <<"elections", "economy">>}

\* The date text the provider puts in a result entry.
ItemDate == <<"2", " ", "d", "a", "y", "s", " ", "a", "g", "o">>

\* The i-th entry of a provider result list.  The entries differ in the keys
\* they carry; kind "null" carries a JSON null title.
Item(i, kind) ==
    LET n == ToString(i)
    IN  CASE kind = "full" ->
               [title |-> "Title " \o n, source |-> "Source " \o n,
                snippet |-> "Snippet " \o n, date |-> ItemDate,
                link |-> "https://news.example/" \o n]
          [] kind = "no_source_date" ->
               [title |-> "Title " \o n, snippet |-> "Snippet " \o n,
                link |-> "https://news.example/" \o n]
          [] kind = "no_title_link" ->
               [source |-> "Source " \o n, snippet |-> "Snippet " \o n,
                date |-> ItemDate]
          [] kind = "null" ->
               [title |-> None, source |-> "Source " \o n,
                snippet |-> "Snippet " \o n, date |-> ItemDate,
                link |-> "https://news.example/" \o n]

ListShapes == {"full", "mixed", "sparse", "null_second", "null_last"}

ItemKind(i, n, shape) ==
    CASE shape = "full" -> "full"
      [] shape = "mixed" ->
           (IF i % 3 = 1 THEN "full"
            ELSE IF i % 3 = 2 THEN "no_source_date" ELSE "no_title_link")
      [] shape = "sparse" ->
           (IF i % 2 = 1 THEN "no_title_link" ELSE "no_source_date")
      [] shape = "null_second" -> (IF i = 2 THEN "null" ELSE "full")
      [] shape = "null_last" -> (IF i = n THEN "null" ELSE "full")

\* A provider result list of n entries.
NewsResults(n, shape) == [i \in 1..n |-> Item(i, ItemKind(i, n, shape))]

ResultLists == {NewsResults(n, shape) : n \in 0..MaxResults, shape \in ListShapes}

\* What response.json() can hold: an error field, alone or beside results;
\* neither field; a result list.
SearchData ==
    {[error |-> "Invalid API key."],
     [error |-> "Google hasn't returned any results for this query.",
      news_results |-> NewsResults(2, "full")],
     [search_metadata |-> "Success"]}
    \cup {[news_results |-> l] : l \in ResultLists}

\* What the awaited client.get and response.json() can do: raise, or give
\* the parsed body.
SearchOutcomes ==
    {[raises |-> TRUE, exc |-> OtherException(m)] :
        m \in {"All connection attempts failed",
               "Expecting value: line 1 column 1 (char 0)"}}
    \cup {[raises |-> FALSE, json |-> d] : d \in SearchData}

\* The reply texts of the generative model.
TextJsonBoth == "{\"headline\": \"Economy Sways Vote\", \"summary\": \"...\"}"
TextJsonNoSummary == "{\"headline\": \"Economy Sways Vote\"}"
TextJsonNoHeadline == "{\"summary\": \"...\"}"
TextJsonNullHeadline == "{\"headline\": null, \"summary\": \"...\"}"
TextJsonList == "[\"Economy Sways Vote\", \"...\"]"
TextProse == "Here is the headline you asked for: Economy Sways Vote"
TextWrapped == "Sure! {\"headline\": \"Economy Sways Vote\", \"summary\": \"...\"}"
TextEmpty == ""

ReplyTexts ==
    {TextJsonBoth, TextJsonNoSummary, TextJsonNoHeadline, TextJsonNullHeadline,
     TextJsonList, TextProse, TextWrapped, TextEmpty}

\* What model.generate_content(prompt) can do: raise, give a response with
\* a text, or give a response object that has no text attribute.
ModelOutcomes ==
    {[raises |-> TRUE, exc |-> OtherException("503 The model is overloaded.")]}
    \cup {[raises |-> FALSE, response |-> [text |-> t]] : t \in ReplyTexts}
    \cup {[raises |-> FALSE, response |-> [candidates |-> "none"]]}

\* ---------------------------------------------------------------- json
\* json.loads on the reply texts: ok = FALSE is JSONDecodeError; otherwise
\* the value, a dict (isdict) or something else.
JsonLoads(text) ==
    CASE text = TextJsonBoth ->
           [ok |-> TRUE, isdict |-> TRUE,
            value |-> [headline |-> "Economy Sways Vote", summary |-> "..."]]
      [] text = TextJsonNoSummary ->
           [ok |-> TRUE, isdict |-> TRUE,
            value |-> [headline |-> "Economy Sways Vote"]]
      [] text = TextJsonNoHeadline ->
           [ok |-> TRUE, isdict |-> TRUE, value |-> [summary |-> "..."]]
      [] text = TextJsonNullHeadline ->
           [ok |-> TRUE, isdict |-> TRUE,
            value |-> [headline |-> None, summary |-> "..."]]
      [] text = TextJsonList ->
           [ok |-> TRUE, isdict |-> FALSE, value |-> [list |-> "list"]]
      [] OTHER -> [ok |-> FALSE, isdict |-> FALSE, value |-> [none |-> "none"]]

\* ------------------------------------------------- the handler's pieces
MsgNoSerpKey == "SERP API key not configured"
MsgNoGoogleKey == "Google API key not configured"
MsgBadDate == "Invalid date format. Use YYYY-MM-DD"
MsgNoNewsSummary == "No news found for the specified date and topics."
MsgNoNewsHeadline == "No News Available"
DefaultHeadline == "News of the Day"
DefaultSummary == "Summary not available."
FallbackSummary == "Summary not available due to processing error."
\* str() of pydantic's ValidationError for a field that is not a string.
MsgValidation == "1 validation error: Input should be a valid string"

\* Mutant: the Google key is not checked.
EntryCheckSkipsGoogleKey(serp, google, date) ==
    IF ~Truthy(serp) THEN "no_serp_key"
    ELSE IF ~Strptime(date) THEN "bad_date"
    ELSE "ok"

\* Mutant: the date is not validated.
EntryCheckSkipsDate(serp, google, date) ==
    IF ~Truthy(serp) THEN "no_serp_key"
    ELSE IF ~Truthy(google) THEN "no_google_key"
    ELSE "ok"

\* The checks before the search call, in the code's order: which of them
\* raises, or "ok".
EntryCheck(serp, google, date) ==
    IF ~Truthy(serp) THEN "no_serp_key"
    ELSE IF ~Truthy(google) THEN "no_google_key"
    ELSE IF ~Strptime(date) THEN "bad_date"
    ELSE "ok"

\* Mutant: the error field is looked up under the wrong key.
HasErrorWrongKey(d) == "errors" \in DOMAIN d

\* "error" in data
HasError(d) == "error" \in DOMAIN d

\* Mutant: no short circuit when the results field is missing.
NoResultsFieldNever(d) == FALSE

\* "news_results" not in data
NoResultsField(d) == "news_results" \notin DOMAIN d

\* return NewsResponse(articles=[], summary=..., headline=...)
NoNewsResponse == NewsResponse(NoArticles, MsgNoNewsSummary, MsgNoNewsHeadline)

\* Mutant: the result list is not sliced.
ProcessedItemsUncapped(d) == Get(d, "news_results", << >>)

\* data.get("news_results", [])[:15]
ProcessedItems(d) == Slice(Get(d, "news_results", << >>), MaxArticles)

\* NewsArticle(title=item.get("title", ""), ..., url=item.get("link", ""))
NewsArticle(item, reqDate) ==
    [title |-> Get(item, "title", ""),
     source |-> Get(item, "source", ""),
     snippet |-> Get(item, "snippet", ""),
     date |-> Get(item, "date", reqDate),
     url |-> Get(item, "link", "")]

\* pydantic accepts the article: title, source and snippet are strings (the
\* date is a string in every input; url is Optional).
ArticleValid(a) == IsStr(a.title) /\ IsStr(a.source) /\ IsStr(a.snippet)

\* The for loop: the articles list, when no NewsArticle(...) raises.
MapArticles(items, reqDate) ==
    [k \in 1..Len(items) |-> NewsArticle(items[k], reqDate)]

\* The loop raises ValidationError at the first entry pydantic rejects.
MappingRaises(items, reqDate) ==
    \E k \in 1..Len(items) : ~ArticleValid(NewsArticle(items[k], reqDate))

Fallback == [headline |-> DefaultHeadline, summary |-> FallbackSummary]

\* Mutant: the except branch sets the summary the .get default uses.
ParseReplyWrongFallback(response) ==
    LET wrong == [headline |-> DefaultHeadline, summary |-> DefaultSummary]
    IN  IF "text" \notin DOMAIN response THEN wrong
        ELSE LET j == JsonLoads(response.text)
             IN  IF ~j.ok THEN wrong
                 ELSE IF ~j.isdict THEN wrong
                 ELSE [headline |-> Get(j.value, "headline", DefaultHeadline),
                       summary |-> Get(j.value, "summary", DefaultSummary)]

\* The inner try: json.loads(response.text), the two .get calls, and the
\* fallback of except (json.JSONDecodeError, AttributeError).  response.text
\* raises AttributeError when the response has no text; .get raises it when
\* the parsed value is not a dict.
ParseReply(response) ==
    IF "text" \notin DOMAIN response THEN Fallback
    ELSE LET j == JsonLoads(response.text)
         IN  IF ~j.ok THEN Fallback
             ELSE IF ~j.isdict THEN Fallback
             ELSE [headline |-> Get(j.value, "headline", DefaultHeadline),
                   summary |-> Get(j.value, "summary", DefaultSummary)]

\* pydantic accepts NewsResponse(articles, summary, headline).
ResponseValid(parsed) == IsStr(parsed.headline) /\ IsStr(parsed.summary)

\* ------------------------------------------------------------------ state
NoRequest == [date |-> << >>, topics |-> << >>]
NoData == [pending |-> "pending"]
NoReply == [pending |-> "pending"]
NoFault == [call |-> "none", msg |-> ""]

InitWith(invocations) ==
    /\ SERP_API_KEY \in EnvValues
    /\ GOOGLE_API_KEY \in EnvValues
    /\ pc = [i \in invocations |-> "idle"]
    /\ request = [i \in invocations |-> NoRequest]
    /\ data = [i \in invocations |-> NoData]
    /\ articles = [i \in invocations |-> NoArticles]
    /\ reply = [i \in invocations |-> NoReply]
    /\ result = [i \in invocations |-> Pending]
    /\ fault = [i \in invocations |-> NoFault]
    /\ searchCalls = [i \in invocations |-> 0]
    /\ modelCalls = [i \in invocations |-> 0]

\* The invocation ends with response r.
Finish(i, r) ==
    /\ result' = [result EXCEPT ![i] = r]
    /\ pc' = [pc EXCEPT ![i] = "done"]

\* ---------------------------------------------------------------- actions
\* Lines 52-80: a request arrives; the key checks and the date validation
\* run; the search request is issued and awaited.
Begin(i, dates, topicLists) ==
    /\ pc[i] = "idle"
    /\ \E date \in dates, topics \in topicLists :
        LET check == EntryCheck(SERP_API_KEY, GOOGLE_API_KEY, date)
        IN  /\ request' = [request EXCEPT ![i] = [date |-> date, topics |-> topics]]
            /\ CASE check = "no_serp_key" ->
                      /\ Finish(i, ErrorResponse(500, MsgNoSerpKey))
                      /\ UNCHANGED searchCalls
                 [] check = "no_google_key" ->
                      /\ Finish(i, ErrorResponse(500, MsgNoGoogleKey))
                      /\ UNCHANGED searchCalls
                 [] check = "bad_date" ->
                      /\ \E s \in StrOf(HTTPException(400, MsgBadDate)) :
                            Finish(i, OuterExcept(s))
                      /\ UNCHANGED searchCalls
                 [] OTHER ->
                      /\ searchCalls' = [searchCalls EXCEPT ![i] = @ + 1]
                      /\ pc' = [pc EXCEPT ![i] = "await_search"]
                      /\ UNCHANGED result
    /\ UNCHANGED <<SERP_API_KEY, GOOGLE_API_KEY, data, articles, reply, fault,
                   modelCalls>>

\* Lines 71-130: the search call ends.  An exception goes to the outer
\* except; an error field raises HTTPException(400), which the outer except
\* catches as well; a body without news_results returns the fixed response;
\* otherwise the entries are mapped and the model is called.
SearchReturn(i, outcomes) ==
    /\ pc[i] = "await_search"
    /\ \E o \in outcomes :
        IF o.raises
        THEN /\ fault' = [fault EXCEPT ![i] = [call |-> "search", msg |-> o.exc.detail]]
             /\ \E s \in StrOf(o.exc) : Finish(i, OuterExcept(s))
             /\ UNCHANGED <<data, articles, modelCalls>>
        ELSE /\ data' = [data EXCEPT ![i] = o.json]
             /\ UNCHANGED fault
             /\ IF HasError(o.json)
                THEN /\ \E s \in StrOf(HTTPException(400, o.json.error)) :
                           Finish(i, OuterExcept(s))
                     /\ UNCHANGED <<articles, modelCalls>>
                ELSE IF NoResultsField(o.json)
                THEN /\ Finish(i, NoNewsResponse)
                     /\ UNCHANGED <<articles, modelCalls>>
                ELSE LET items == ProcessedItems(o.json)
                     IN  IF MappingRaises(items, request[i].date)
                         THEN /\ Finish(i, OuterExcept(MsgValidation))
                              /\ UNCHANGED <<articles, modelCalls>>
                         ELSE /\ articles' = [articles EXCEPT ![i] =
                                     MapArticles(items, request[i].date)]
                              /\ modelCalls' = [modelCalls EXCEPT ![i] = @ + 1]
                              /\ pc' = [pc EXCEPT ![i] = "await_model"]
                              /\ UNCHANGED result
    /\ UNCHANGED <<SERP_API_KEY, GOOGLE_API_KEY, request, reply, searchCalls>>

\* Lines 130-148: the model call ends.  An exception goes to the outer
\* except; otherwise the reply is parsed (with the fallback) and the
\* NewsResponse is built, which raises ValidationError when the headline or
\* the summary is not a string.
ModelReturn(i, outcomes) ==
    /\ pc[i] = "await_model"
    /\ \E o \in outcomes :
        IF o.raises
        THEN /\ fault' = [fault EXCEPT ![i] = [call |-> "model", msg |-> o.exc.detail]]
             /\ \E s \in StrOf(o.exc) : Finish(i, OuterExcept(s))
             /\ UNCHANGED reply
        ELSE LET parsed == ParseReply(o.response)
             IN  /\ reply' = [reply EXCEPT ![i] = o.response]
                 /\ UNCHANGED fault
                 /\ IF ResponseValid(parsed)
                    THEN Finish(i, NewsResponse(articles[i], parsed.summary,
                                                parsed.headline))
                    ELSE Finish(i, OuterExcept(MsgValidation))
    /\ UNCHANGED <<SERP_API_KEY, GOOGLE_API_KEY, request, data, articles,
                   searchCalls, modelCalls>>

\* --------------------------------------------------------- specifications
\* One invocation, every input.
Init == InitWith({1})

Next ==
    \/ Begin(1, DateInputs, TopicInputs)
    \/ SearchReturn(1, SearchOutcomes)
    \/ ModelReturn(1, ModelOutcomes)

Spec == Init /\ [][Next]_vars

\* Several invocations interleaved at their await points, on inputs that
\* take every branch of the handler.
Invocations == 1..NumInv

ConcDates == {DateGood1, DateBad1}
ConcTopics == {<<"elections", "economy">>}

ConcSearchOutcomes ==
    {[raises |-> TRUE, exc |-> OtherException("All connection attempts failed")]}
    \cup {[raises |-> FALSE, json |-> d] :
            d \in {[error |-> "Invalid API key."],
                   [error |-> "Google hasn't returned any results for this query.",
                    news_results |-> NewsResults(2, "full")],
                   [search_metadata |-> "Success"],
                   [news_results |-> NewsResults(2, "mixed")]}}

ConcModelOutcomes ==
    {[raises |-> TRUE, exc |-> OtherException("503 The model is overloaded.")],
     [raises |-> FALSE, response |-> [text |-> TextJsonBoth]],
     [raises |-> FALSE, response |-> [text |-> TextProse]]}

InitConc == InitWith(Invocations)

NextConc ==
    \E i \in Invocations :
        \/ Begin(i, ConcDates, ConcTopics)
        \/ SearchReturn(i, ConcSearchOutcomes)
        \/ ModelReturn(i, ConcModelOutcomes)

SpecConc == InitConc /\ [][NextConc]_vars

\* ----------------------------------------------------------- properties
Done(i) == pc[i] = "done"

KeysConfigured ==
    /\ SERP_API_KEY # None /\ SERP_API_KEY # ""
    /\ GOOGLE_API_KEY # None /\ GOOGLE_API_KEY # ""

\* The search call of invocation i completed with a parsed body.
SearchCompleted(i) == data[i] # NoData

\* C1: with both API keys configured, a request whose date fails the
\* YYYY-MM-DD validation ends with InvalidInput, status 400, for every
\* topics list.
C1_MalformedDateIs400 ==
    \A i \in DOMAIN pc :
        (Done(i) /\ KeysConfigured /\ ~Strptime(request[i].date))
            => (result[i].status = 400 /\ result[i].detail = MsgBadDate)

\* C2: with both keys configured and a well-formed date, a search response
\* with an error field ends with UpstreamError, status 400, whose detail is
\* that error message, and no model call is made.
C2_ErrorFieldIs400 ==
    \A i \in DOMAIN pc :
        (Done(i) /\ KeysConfigured /\ Strptime(request[i].date)
                 /\ "error" \in DOMAIN data[i])
            => /\ result[i].status = 400
               /\ result[i].detail = data[i].error
               /\ modelCalls[i] = 0

\* C3: a search response with no error field and no news_results key ends
\* in a success with no articles and the two fixed texts, and the model is
\* never called in that invocation.
C3_NoResultsShortCircuit ==
    \A i \in DOMAIN pc :
        (SearchCompleted(i) /\ "error" \notin DOMAIN data[i]
                            /\ "news_results" \notin DOMAIN data[i])
            => /\ Done(i)
               /\ result[i].status = 200
               /\ result[i].articles = << >>
               /\ result[i].headline = "No News Available"
               /\ result[i].summary = "No news found for the specified date and topics."
               /\ modelCalls[i] = 0

C3_Witness ==
    \E i \in DOMAIN pc :
        /\ Done(i) /\ SearchCompleted(i)
        /\ "error" \notin DOMAIN data[i]
        /\ "news_results" \notin DOMAIN data[i]
        /\ result[i].status = 200

\* The model replied, and the reply has no text or a text json.loads rejects.
ReplyUnparseable(i) ==
    /\ reply[i] # NoReply
    /\ \/ "text" \notin DOMAIN reply[i]
       \/ ~JsonLoads(reply[i].text).ok

C5_MissingKeyIs500 ==
    ~KeysConfigured =>
        \A i \in DOMAIN pc :
            /\ searchCalls[i] = 0
            /\ modelCalls[i] = 0
            /\ pc[i] \in {"idle", "done"}
            /\ Done(i) =>
                /\ result[i].status = 500
                /\ result[i].detail \in {MsgNoSerpKey, MsgNoGoogleKey}

C5_Witness ==
    \E i \in DOMAIN pc :
        /\ Done(i)
        /\ SERP_API_KEY = "key" /\ GOOGLE_API_KEY = None
        /\ ~Strptime(request[i].date)
        /\ result[i].status = 500
        /\ result[i].detail = MsgNoGoogleKey

\* A NewsResult as the response model declares it: at most 15 articles, and
\* strings where the model says str.
WellFormed(r) ==
    /\ Len(r.articles) <= MaxArticles
    /\ \A k \in 1..Len(r.articles) :
          /\ r.articles[k].title # None
          /\ r.articles[k].source # None
          /\ r.articles[k].snippet # None
    /\ r.headline # None
    /\ r.summary # None

\* The texts str(e) an exception raised inside the try block of invocation i
\* can have.
RaisedTexts(i) ==
    {fault[i].msg, MsgValidation, "", "400: " \o MsgBadDate}
    \cup (IF "error" \in DOMAIN data[i]
          THEN {"400: " \o data[i].error} ELSE {})

\* The outcome kinds of the error handling design that response r of
\* invocation i falls under.
KindsOf(i, r) ==
    {k \in {"Success", "InvalidInput", "UpstreamError", "MissingConfiguration",
            "InternalError"} :
        CASE k = "Success" -> r.status = 200 /\ WellFormed(r)
          [] k = "InvalidInput" -> r.status = 400 /\ r.detail = MsgBadDate
          [] k = "UpstreamError" ->
               /\ r.status = 400
               /\ "error" \in DOMAIN data[i]
               /\ r.detail = data[i].error
          [] k = "MissingConfiguration" ->
               r.status = 500 /\ r.detail \in {MsgNoSerpKey, MsgNoGoogleKey}
          [] k = "InternalError" ->
               /\ r.status = 500
               /\ \E s \in RaisedTexts(i) : r.detail = "Error fetching news: " \o s}

\* C6: a request with a well-formed date and non-empty topics ends, whatever
\* the two providers do, in exactly one of: a success with a well-formed
\* NewsResult, InvalidInput, UpstreamError, MissingConfiguration,
\* InternalError.
C6_OutcomeClassified ==
    \A i \in DOMAIN pc :
        (Done(i) /\ Strptime(request[i].date) /\ request[i].topics # << >>)
            => Cardinality(KindsOf(i, result[i])) = 1

C6_Witness ==
    \E i \in DOMAIN pc :
        /\ Done(i) /\ Strptime(request[i].date) /\ request[i].topics # << >>
        /\ reply[i] # NoReply
        /\ "text" \in DOMAIN reply[i]
        /\ reply[i].text = TextJsonNullHeadline
        /\ KindsOf(i, result[i]) = {"InternalError"}

\* C7: in every successful response the articles list has at most 15
\* elements, and they are the first min(n, 15) provider entries in their
\* original order.
C7_AtMost15InOrder ==
    \A i \in DOMAIN pc :
        (Done(i) /\ result[i].status = 200)
            => /\ Len(result[i].articles) <= 15
               /\ "news_results" \in DOMAIN data[i] =>
                    /\ Len(result[i].articles)
                          = Min(Len(data[i].news_results), 15)
                    /\ \A k \in 1..Len(result[i].articles) :
                          result[i].articles[k]
                             = NewsArticle(data[i].news_results[k], request[i].date)

C7_Witness ==
    \E i \in DOMAIN pc :
        /\ Done(i) /\ result[i].status = 200
        /\ "news_results" \in DOMAIN data[i]
        /\ Len(data[i].news_results) > 15
        /\ Len(result[i].articles) = 15
        /\ result[i].articles[15].snippet = "Snippet 15"

\* C8: an invocation whose date fails the validation never issues the
\* search request nor the model request.
C8_MalformedDateNoCalls ==
    \A i \in DOMAIN pc :
        (pc[i] # "idle" /\ ~Strptime(request[i].date))
            => searchCalls[i] = 0 /\ modelCalls[i] = 0 /\ Done(i)

C8_Witness ==
    \E i \in DOMAIN pc :
        /\ Done(i) /\ KeysConfigured
        /\ request[i].date = DateBad1
        /\ searchCalls[i] = 0 /\ modelCalls[i] = 0

\* C9: when an outbound call raises an exception the handler does not
\* handle itself, the invocation ends with InternalError, status 500, whose
\* detail carries the exception's message, and the call is not issued again.
C9_CallFailureIs500 ==
    \A i \in DOMAIN pc :
        fault[i].call # "none"
            => /\ Done(i)
               /\ result[i].status = 500
               /\ result[i].detail = "Error fetching news: " \o fault[i].msg
               /\ searchCalls[i] = 1
               /\ modelCalls[i] = (IF fault[i].call = "model" THEN 1 ELSE 0)

C9_Witness ==
    \E i \in DOMAIN pc :
        /\ Done(i) /\ fault[i].call = "model"
        /\ result[i].status = 500
        /\ searchCalls[i] = 1 /\ modelCalls[i] = 1

\* C10: each invocation issues the search call at most once and the model
\* call at most once, and the model call only after its search call has
\* completed with a body that has no error field and has a news_results
\* field; this holds for every invocation of an interleaving.
C10_CallsOnceInOrder ==
    \A i \in DOMAIN pc :
        /\ searchCalls[i] <= 1
        /\ modelCalls[i] <= 1
        /\ modelCalls[i] = 1 =>
              /\ searchCalls[i] = 1
              /\ SearchCompleted(i)
              /\ "error" \notin DOMAIN data[i]
              /\ "news_results" \in DOMAIN data[i]
        /\ pc[i] = "await_search" => searchCalls[i] = 1 /\ modelCalls[i] = 0
        /\ pc[i] = "await_model" => modelCalls[i] = 1

C10_Witness ==
    \E i, j \in DOMAIN pc :
        /\ i # j
        /\ pc[i] = "await_model" /\ modelCalls[i] = 1
        /\ pc[j] = "await_search" /\ modelCalls[j] = 0

====
